---- MODULE Spec2Model ----
(***************************************************************************)
(* bevy_sqlx: the command / task / reconciliation pipeline.                *)
(*                                                                         *)
(* A caller constructs SqlxEvents (commands) and sends them.  The plugin   *)
(* adds two systems to Update with no ordering between them (plugin.rs 42):*)
(* SqlxEvent::handle_events (intake: Start notification, spawn the task,   *)
(* push the entry) and SqlxTasks::handle_tasks (reconciliation: poll every *)
(* entry once, merge the records of the completed ones into the world,     *)
(* drop them).  Each is one atomic action here and the two interleave      *)
(* freely, which covers either order inside an update.  The futures run on *)
(* AsyncComputeTaskPool; what the database answers is not decided by this  *)
(* code and is a nondeterministic choice.                                  *)
(***************************************************************************)
EXTENDS Integers, Sequences, FiniteSets, TLC

\* ------------------------------------------------------------------ bounds
MaxCmds == 2      \* commands the caller constructs (and sends)
MaxRows == 2      \* rows the database returns over the whole run
MaxTicks == 2     \* updates of the App that are counted

\* ------------------------------------------------------- program constants
FirstId == 1      \* AtomicU32::new(1)

\* --------------------------------------------------------------- universes
\* Foo { id, text } of the tests; primary_key() is the id column.
\* Two rows with the same key and different text, one row with another key
\* and the text of the first.
Foo == {[id |-> 1, text |-> "a"], [id |-> 1, text |-> "b"],
        [id |-> 2, text |-> "a"]}
Keys == {c.id : c \in Foo}
Errors == {"RowNotFound"}

primary_key(c) == c.id

\* Result<Vec<C>, Error> of a task, and the not-ready state of its handle.
Pending == [tag |-> "Pending"]
Ok(v) == [tag |-> "Ok", vec |-> v]
Err(e) == [tag |-> "Err", err |-> e]

\* SqlxEventStatus
Start(id) == [kind |-> "Start", id |-> id]
Return(id, v) == [kind |-> "Return", id |-> id, vec |-> v]
Spawn(id, pk) == [kind |-> "Spawn", id |-> id, pk |-> pk]
Update(id, pk) == [kind |-> "Update", id |-> id, pk |-> pk]
Error(id, e) == [kind |-> "Error", id |-> id, err |-> e]

VARIABLES
    generator,   \* EVENT_ID_GENERATOR
    cmds,        \* the SqlxEvent values the caller holds, in construction order
    events,      \* Events<SqlxEvent>: sent, not yet read by handle_events
    components,  \* SqlxTasks.components: Vec<(id, sync, Task)>
    world,       \* the entities holding a C, in iteration order (index = Entity)
    status,      \* Events<SqlxEventStatus>: every notification sent so far
    sent,        \* history: one record per sent event, with the result it got
    tick         \* App::update: how many have run, and which system of the
                 \* current one has run already

vars == <<generator, cmds, events, components, world, status, sent, tick>>

----------------------------------------------------------------------------
\* Sequences of length at most n over S.
SeqUpTo(S, n) == UNION {[1..k -> S] : k \in 0..n}

RECURSIVE SumLen(_)
SumLen(s) == IF s = <<>> THEN 0
             ELSE (IF Head(s).res.tag = "Ok" THEN Len(Head(s).res.vec) ELSE 0)
                  + SumLen(Tail(s))

\* Rows returned so far, over all sent events.
RowsReturned == SumLen(sent)

----------------------------------------------------------------------------
\* Variant: a load followed by a store that is lost to a concurrent caller.
next_event_id_after_Lost(g) == g

\* Variant: the counter stops at u32::MAX (saturating_add).
next_event_id_after_Saturating(g) == IF g = -1 THEN g ELSE g + 1

\* event.rs: next_event_id
\* An id is the 32 bits of the u32, written as the integer with the same bits
\* in two's complement: 1 .. 2147483647 stand for themselves, -1 stands for
\* u32::MAX = 2^32 - 1 and -2147483648 for 2^31.  fetch_add(1) wraps, so the
\* successor of -1 (u32::MAX) is 0.
next_event_id_value(g) == g
next_event_id_after(g) == IF g = 2147483647 THEN -2147483647 - 1 ELSE g + 1

\* Variant: the constructor announces the command at once, before it is sent.
call_private_Eager(sync) ==
    /\ Len(cmds) < MaxCmds
    /\ \A c \in 1..Len(cmds) : \E n \in 1..Len(sent) : sent[n].id = cmds[c].id
    /\ cmds' = Append(cmds, [id |-> next_event_id_value(generator),
                             will_sync |-> sync])
    /\ generator' = next_event_id_after(generator)
    /\ status' = Append(status, Start(next_event_id_value(generator)))
    /\ UNCHANGED <<events, components, world, sent, tick>>

\* event.rs: call_private (query, query_sync, call and call_sync all end here)
\* The caller sends a command before it constructs the next one, as every
\* construction site of the repository does (events.send(SqlxEvent::query(..))).
call_private(sync) ==
    /\ Len(cmds) < MaxCmds
    /\ \A c \in 1..Len(cmds) : \E n \in 1..Len(sent) : sent[n].id = cmds[c].id
    /\ cmds' = Append(cmds, [id |-> next_event_id_value(generator),
                             will_sync |-> sync])
    /\ generator' = next_event_id_after(generator)
    /\ UNCHANGED <<events, components, world, status, sent, tick>>

\* event.rs: SqlxEvent::query, ::query_sync, ::call and ::call_sync, and the
\* flag each one passes on
SqlxEvent_query == call_private(FALSE)
SqlxEvent_query_sync == call_private(TRUE)
SqlxEvent_call == call_private(FALSE)
SqlxEvent_call_sync == call_private(TRUE)

\* world.send_event(event) / EventWriter::send(event): the event is moved
\* into Events<SqlxEvent>, so a constructed command is sent once.
send_event(c) ==
    /\ \A n \in 1..Len(sent) : sent[n].id # cmds[c].id
    /\ events' = Append(events, [id |-> cmds[c].id,
                                 will_sync |-> cmds[c].will_sync,
                                 sub |-> Len(sent) + 1])
    /\ sent' = Append(sent, [id |-> cmds[c].id, will_sync |-> cmds[c].will_sync,
                             res |-> Pending, tick |-> tick.n])
    /\ UNCHANGED <<generator, cmds, components, world, status, tick>>

----------------------------------------------------------------------------
\* Variant: intake that sends no Start.
IntakeStatus_NoStart(st, event) == st

\* Variant: the entry is pushed with the flag of the non-synchronizing path.
IntakeEntry_NoSync(cs, event) ==
    Append(cs, [id |-> event.id, sync |-> FALSE,
                sub |-> event.sub, res |-> Pending])

\* Variant: the new entry is inserted at the front of the Vec.
IntakeEntry_Front(cs, event) ==
    <<[id |-> event.id, sync |-> event.will_sync,
       sub |-> event.sub, res |-> Pending]>> \o cs

\* event.rs: handle_events, the body of the loop for one event
IntakeStatus(st, event) == Append(st, Start(event.id))
IntakeEntry(cs, event) ==
    Append(cs, [id |-> event.id, sync |-> event.will_sync,
                sub |-> event.sub, res |-> Pending])

RECURSIVE IntakeAll(_, _)
IntakeAll(acc, evs) ==
    IF evs = <<>> THEN acc
    ELSE IntakeAll([status |-> IntakeStatus(acc.status, Head(evs)),
                    components |-> IntakeEntry(acc.components, Head(evs))],
                   Tail(evs))

\* Variant: the events are iterated without advancing the reader, so the next
\* run reads them again.
run_handle_events_Reread ==
    /\ LET r == IntakeAll([status |-> status, components |-> components], events)
       IN /\ status' = r.status
          /\ components' = r.components
    /\ UNCHANGED <<generator, cmds, world, sent, events>>

run_handle_events ==
    /\ LET r == IntakeAll([status |-> status, components |-> components], events)
       IN /\ status' = r.status
          /\ components' = r.components
    /\ events' = <<>>
    /\ UNCHANGED <<generator, cmds, world, sent>>

\* The system run on its own, whatever else the schedule holds.
handle_events == run_handle_events /\ UNCHANGED tick

----------------------------------------------------------------------------
\* The worker pool finishes the future of entry i with result r.
Results == {Ok(v) : v \in SeqUpTo(Foo, MaxRows)} \cup {Err(e) : e \in Errors}

\* Variant: the worker writes the records of a synchronizing command into the
\* world itself when the task finishes.
task_completes_Writes(i, r) ==
    /\ components[i].res = Pending
    /\ r.tag = "Ok" => RowsReturned + Len(r.vec) <= MaxRows
    /\ components' = [components EXCEPT ![i].res = r]
    /\ sent' = [sent EXCEPT ![components[i].sub].res = r]
    /\ world' = IF r.tag = "Ok" /\ components[i].sync THEN world \o r.vec
                ELSE world
    /\ UNCHANGED <<generator, cmds, events, status, tick>>

task_completes(i, r) ==
    /\ components[i].res = Pending
    /\ r.tag = "Ok" => RowsReturned + Len(r.vec) <= MaxRows
    /\ components' = [components EXCEPT ![i].res = r]
    /\ sent' = [sent EXCEPT ![components[i].sub].res = r]
    /\ UNCHANGED <<generator, cmds, events, world, status, tick>>

----------------------------------------------------------------------------
\* tasks.rs: handle_tasks.  The pass folds over components with three
\* accumulators: the entries retained, the notifications sent, and the
\* Commands queued (they reach the world only in params.apply(world)).

\* Variant: the poll result is thrown away, every task counts as not ready.
poll_once_NeverReady(task) == Pending
\* Variant: block_on(task), which waits for a pending task instead of
\* reporting it not ready.
poll_once_Blocking(task) == IF task.res = Pending THEN Ok(<<>>) ELSE task.res

\* block_on(future::poll_once(task)): Some(result) iff the task has finished.
poll_once(task) == task.res

\* Variant: the scan never finds the entity.
existing_entity_None(query, task_component) == 0

\* Variant: the scan compares whole components instead of primary keys.
existing_entity_WholeRecord(query, task_component) ==
    LET found == {e \in 1..Len(query) : task_component = query[e]}
    IN IF found = {} THEN 0
       ELSE CHOOSE e \in found : \A f \in found : e <= f

\* Variant: the scan has no break, so the last entity with the key wins.
existing_entity_Last(query, task_component) ==
    LET found == {e \in 1..Len(query) :
                     primary_key(task_component) = primary_key(query[e])}
    IN IF found = {} THEN 0
       ELSE CHOOSE e \in found : \A f \in found : e >= f

\* tasks.rs 77-87: the first entity, in iteration order, with the record's key
\* (0 stands for None).
existing_entity(query, task_component) ==
    LET found == {e \in 1..Len(query) :
                     primary_key(task_component) = primary_key(query[e])}
    IN IF found = {} THEN 0
       ELSE CHOOSE e \in found : \A f \in found : e <= f

\* Variant: the Update branch queues a spawn instead of an insert.
sync_component_UpdateSpawns(acc, id, task_component, query) ==
    LET entity == existing_entity(query, task_component)
    IN IF entity # 0
       THEN [acc EXCEPT
               !.status = Append(@, Update(id, primary_key(task_component))),
               !.commands = Append(@, [op |-> "spawn", entity |-> 0,
                                       component |-> task_component])]
       ELSE [acc EXCEPT
               !.status = Append(@, Spawn(id, primary_key(task_component))),
               !.commands = Append(@, [op |-> "spawn", entity |-> 0,
                                       component |-> task_component])]

\* tasks.rs 89-107: one record of a synchronizing command
sync_component(acc, id, task_component, query) ==
    LET entity == existing_entity(query, task_component)
    IN IF entity # 0
       THEN [acc EXCEPT
               !.status = Append(@, Update(id, primary_key(task_component))),
               !.commands = Append(@, [op |-> "insert", entity |-> entity,
                                       component |-> task_component])]
       ELSE [acc EXCEPT
               !.status = Append(@, Spawn(id, primary_key(task_component))),
               !.commands = Append(@, [op |-> "spawn", entity |-> 0,
                                       component |-> task_component])]

\* Variant: each Command is applied as soon as it is issued (world.spawn /
\* world.entity_mut(..).insert), so later lookups see it.
RECURSIVE sync_components_Immediate(_, _, _, _)
sync_components_Immediate(acc, id, task_components, query) ==
    IF task_components = <<>> THEN acc
    ELSE LET next == sync_component(acc, id, Head(task_components), query)
             command == next.commands[Len(next.commands)]
         IN sync_components_Immediate(
               next, id, Tail(task_components),
               IF command.op = "insert"
               THEN [query EXCEPT ![command.entity] = command.component]
               ELSE Append(query, command.component))
\* Variant: the records are taken from the back of the vector (pop()).
RECURSIVE sync_components_Reversed(_, _, _, _)
sync_components_Reversed(acc, id, task_components, query) ==
    IF task_components = <<>> THEN acc
    ELSE sync_components_Reversed(
            sync_component(acc, id, task_components[Len(task_components)], query),
            id, SubSeq(task_components, 1, Len(task_components) - 1), query)
\* Variant: only the first record is reconciled (query.get_single-like).
sync_components_FirstOnly(acc, id, task_components, query) ==
    IF task_components = <<>> THEN acc
    ELSE sync_component(acc, id, Head(task_components), query)

\* tasks.rs 75-108: for task_component in task_components
RECURSIVE sync_components(_, _, _, _)
sync_components(acc, id, task_components, query) ==
    IF task_components = <<>> THEN acc
    ELSE sync_components(sync_component(acc, id, Head(task_components), query),
                         id, Tail(task_components), query)

\* Variant: the sync flag is ignored and every result is handed back.
on_ok_NeverSync(acc, entry, task_components, query) ==
    [acc EXCEPT !.status = Append(@, Return(entry.id, task_components))]

\* Variant: the synchronize flag is ignored.
on_ok_AlwaysSync(acc, entry, task_components, query) ==
    sync_components(acc, entry.id, task_components, query)

\* Variant: a synchronizing command without records reports an empty Return.
on_ok_EmptyReturns(acc, entry, task_components, query) ==
    IF entry.sync /\ task_components # <<>>
    THEN sync_components(acc, entry.id, task_components, query)
    ELSE [acc EXCEPT !.status = Append(@, Return(entry.id, task_components))]

\* tasks.rs 73-115: Ok(task_components)
on_ok(acc, entry, task_components, query) ==
    IF entry.sync
    THEN sync_components(acc, entry.id, task_components, query)
    ELSE [acc EXCEPT !.status = Append(@, Return(entry.id, task_components))]

\* Variant: the error is only logged (dbg!(err)), no notification.
on_err_Silent(acc, entry, err) == acc
\* Variant: a failure discards the Commands queued so far in the pass.
on_err_Rollback(acc, entry, err) ==
    [acc EXCEPT !.status = Append(@, Error(entry.id, err)), !.commands = <<>>]

\* Variant: the notification is tagged with a fresh id instead of the entry's.
on_err_FreshId(acc, entry, err) ==
    [acc EXCEPT !.status = Append(@, Error(next_event_id_value(generator), err))]

\* tasks.rs 116-118: Err(err)
on_err(acc, entry, err) ==
    [acc EXCEPT !.status = Append(@, Error(entry.id, err))]

\* Variant: a failed command is reported and its task started again.
retain_entry_RetryErr(acc, entry, query) ==
    LET result == poll_once(entry)
    IN CASE result.tag = "Pending" ->
              [acc EXCEPT !.components = Append(@, entry)]
         [] result.tag = "Ok" -> on_ok(acc, entry, result.vec, query)
         [] result.tag = "Err" ->
              [on_err(acc, entry, result.err) EXCEPT
                 !.components = Append(@, [entry EXCEPT !.res = Pending])]
\* Variant: the closure reports every entry as retained (retain(|_| true)).
retain_entry_KeepAll(acc, entry, query) ==
    LET result == poll_once(entry)
    IN CASE result.tag = "Pending" ->
              [acc EXCEPT !.components = Append(@, entry)]
         [] result.tag = "Ok" ->
              [on_ok(acc, entry, result.vec, query) EXCEPT
                 !.components = Append(@, entry)]
         [] result.tag = "Err" ->
              [on_err(acc, entry, result.err) EXCEPT
                 !.components = Append(@, entry)]
\* Variant: the closure returns is_some() instead of is_none().
retain_entry_Inverted(acc, entry, query) ==
    LET result == poll_once(entry)
    IN CASE result.tag = "Pending" -> acc
         [] result.tag = "Ok" ->
              [on_ok(acc, entry, result.vec, query) EXCEPT
                 !.components = Append(@, entry)]
         [] result.tag = "Err" ->
              [on_err(acc, entry, result.err) EXCEPT
                 !.components = Append(@, entry)]

\* tasks.rs 69-122: the closure of retain_mut for one entry
retain_entry(acc, entry, query) ==
    LET result == poll_once(entry)
    IN CASE result.tag = "Pending" ->
              [acc EXCEPT !.components = Append(@, entry)]
         [] result.tag = "Ok" -> on_ok(acc, entry, result.vec, query)
         [] result.tag = "Err" -> on_err(acc, entry, result.err)

\* Variant: every entry is visited twice.
RECURSIVE retain_mut_Twice(_, _, _)
retain_mut_Twice(acc, entries, query) ==
    IF entries = <<>> THEN acc
    ELSE retain_mut_Twice(
            retain_entry(retain_entry(acc, Head(entries), query),
                         Head(entries), query),
            Tail(entries), query)
\* Variant: the Vec is swept from the back (swap_remove-style loop).
RECURSIVE retain_mut_Reversed(_, _, _)
retain_mut_Reversed(acc, entries, query) ==
    IF entries = <<>> THEN acc
    ELSE retain_mut_Reversed(
            retain_entry(acc, entries[Len(entries)], query),
            SubSeq(entries, 1, Len(entries) - 1), query)

RECURSIVE retain_mut(_, _, _)
retain_mut(acc, entries, query) ==
    IF entries = <<>> THEN acc
    ELSE retain_mut(retain_entry(acc, Head(entries), query), Tail(entries), query)

\* Variant: an insert writes every entity that has the key of the component.
apply_command_AllWithKey(w, command) ==
    IF command.op = "insert"
    THEN [e \in 1..Len(w) |->
             IF primary_key(w[e]) = primary_key(command.component)
             THEN command.component ELSE w[e]]
    ELSE Append(w, command.component)
\* Variant: queued spawns are lost.
apply_command_NoSpawn(w, command) ==
    IF command.op = "insert"
    THEN [w EXCEPT ![command.entity] = command.component]
    ELSE w

\* tasks.rs 124: params.apply(world) runs the queued Commands in order.
apply_command(w, command) ==
    IF command.op = "insert"
    THEN [w EXCEPT ![command.entity] = command.component]
    ELSE Append(w, command.component)

\* Variant: the queue is run from its back (a stack).
RECURSIVE apply_Reversed(_, _)
apply_Reversed(w, commands) ==
    IF commands = <<>> THEN w
    ELSE apply_Reversed(apply_command(w, commands[Len(commands)]),
                        SubSeq(commands, 1, Len(commands) - 1))
\* Variant: the world is made to mirror the records just returned, so an
\* entity whose row was not returned is despawned.
apply_Mirror(w, commands) ==
    [k \in 1..Len(commands) |-> commands[k].component]

RECURSIVE apply(_, _)
apply(w, commands) ==
    IF commands = <<>> THEN w
    ELSE apply(apply_command(w, Head(commands)), Tail(commands))

\* The pass over a given outstanding set and world.
Pass(entries, query, st) ==
    retain_mut([components |-> <<>>, status |-> st, commands |-> <<>>],
               entries, query)

run_handle_tasks ==
    /\ LET r == Pass(components, world, status)
       IN /\ components' = r.components
          /\ status' = r.status
          /\ world' = apply(world, r.commands)
    /\ UNCHANGED <<generator, cmds, events, sent>>

\* The system run on its own, whatever else the schedule holds.
handle_tasks == run_handle_tasks /\ UNCHANGED tick

----------------------------------------------------------------------------
Next ==
    \/ SqlxEvent_query
    \/ SqlxEvent_query_sync
    \/ SqlxEvent_call
    \/ SqlxEvent_call_sync
    \/ \E c \in 1..Len(cmds) : send_event(c)
    \/ handle_events
    \/ \E i \in 1..Len(components) : \E r \in Results : task_completes(i, r)
    \/ handle_tasks

Init ==
    /\ generator = FirstId
    /\ cmds = <<>>
    /\ events = <<>>
    /\ components = <<>>
    /\ world = <<>>
    /\ status = <<>>
    /\ sent = <<>>
    /\ tick = [n |-> 0, at |-> "idle"]

Spec == Init /\ [][Next]_vars

----------------------------------------------------------------------------
\* event.rs 53: SqlxEvent derives Clone, and the clone keeps the id.  The
\* caller sends a clone of a command it has already sent.
send_clone(c) ==
    /\ Len(sent) < MaxCmds
    /\ \E n \in 1..Len(sent) : sent[n].id = cmds[c].id
    /\ events' = Append(events, [id |-> cmds[c].id,
                                 will_sync |-> cmds[c].will_sync,
                                 sub |-> Len(sent) + 1])
    /\ sent' = Append(sent, [id |-> cmds[c].id, will_sync |-> cmds[c].will_sync,
                             res |-> Pending, tick |-> tick.n])
    /\ UNCHANGED <<generator, cmds, components, world, status, tick>>

NextClone ==
    \/ Next
    \/ \E c \in 1..Len(cmds) : send_clone(c)

SpecClone == Init /\ [][NextClone]_vars

----------------------------------------------------------------------------
\* event.rs 427: the caller spawns entities itself (world.spawn(Foo {..}))
\* before any command runs; here it has spawned two with the same key.
InitDup ==
    /\ generator = FirstId
    /\ cmds = <<>>
    /\ events = <<>>
    /\ components = <<>>
    /\ world = <<[id |-> 1, text |-> "a"], [id |-> 2, text |-> "a"],
                 [id |-> 1, text |-> "a"]>>
    /\ status = <<>>
    /\ sent = <<>>
    /\ tick = [n |-> 0, at |-> "idle"]

SpecDup == InitDup /\ [][Next]_vars

----------------------------------------------------------------------------
\* event.rs 23-29: the process has constructed 2^32 - 2 or 2^32 - 1 commands,
\* so the counter stands at u32::MAX (-1) or has just wrapped to 0.  The very
\* first command (id 1) was sent long ago and its task is still pending; the
\* caller holds none of the old SqlxEvent values any more.
InitWrap ==
    /\ generator \in {-1, 0}
    /\ cmds = <<>>
    /\ events = <<>>
    /\ components = <<[id |-> FirstId, sync |-> FALSE, sub |-> 1,
                       res |-> Pending]>>
    /\ world = <<>>
    /\ status = <<Start(FirstId)>>
    /\ sent = <<[id |-> FirstId, will_sync |-> FALSE, res |-> Pending,
                 tick |-> 0]>>
    /\ tick = [n |-> 0, at |-> "idle"]

SpecWrap == InitWrap /\ [][Next]_vars

----------------------------------------------------------------------------
\* The App keeps updating (event.rs 281-290 loops over app.update()), so each
\* system that has something to do gets to run, and the worker pool finishes
\* every future it was given.  What matters here is when a task resolves, not
\* how many records it returns: results have at most one record.
LiveResults == {r \in Results : r.tag = "Ok" => Len(r.vec) <= 1}
task_resolves ==
    \E i \in 1..Len(components) : \E r \in LiveResults : task_completes(i, r)

NextLive ==
    \/ SqlxEvent_query
    \/ SqlxEvent_query_sync
    \/ SqlxEvent_call
    \/ SqlxEvent_call_sync
    \/ \E c \in 1..Len(cmds) : send_event(c)
    \/ handle_events
    \/ task_resolves
    \/ handle_tasks

SpecLive ==
    /\ Init
    /\ [][NextLive]_vars
    /\ WF_vars(handle_events)
    /\ WF_vars(handle_tasks)
    /\ WF_vars(task_resolves)

----------------------------------------------------------------------------
\* plugin.rs 42: both systems are added to Update as an unordered tuple, so
\* one App::update runs each of them once, in either order.  tick.at names
\* the system that has run in the update under way; the worker pool
\* completes tasks at any time, the caller acts between updates.
TickAfter(system) ==
    IF tick.at = "idle"
    THEN [tick EXCEPT !.at = system]
    ELSE [n |-> IF tick.n < MaxTicks THEN tick.n + 1 ELSE tick.n,
          at |-> "idle"]

update_handle_events ==
    /\ tick.at \in {"idle", "tasks"}
    /\ run_handle_events
    /\ tick' = TickAfter("events")

update_handle_tasks ==
    /\ tick.at \in {"idle", "events"}
    /\ run_handle_tasks
    /\ tick' = TickAfter("tasks")

NextTick ==
    \/ tick.at = "idle" /\ SqlxEvent_query
    \/ tick.at = "idle" /\ SqlxEvent_query_sync
    \/ tick.at = "idle" /\ SqlxEvent_call
    \/ tick.at = "idle" /\ SqlxEvent_call_sync
    \/ tick.at = "idle" /\ \E c \in 1..Len(cmds) : send_event(c)
    \/ \E i \in 1..Len(components) : \E r \in Results : task_completes(i, r)
    \/ update_handle_events
    \/ update_handle_tasks

SpecTick == Init /\ [][NextTick]_vars
----------------------------------------------------------------------------
\* What the claims are stated over.

Terminal == {"Return", "Spawn", "Update", "Error"}

\* handle_tasks is enabled in every state; this is what it would do now.
Outcome == Pass(components, world, status)
\* The notifications the pass sends, in order.
Emitted == SubSeq(Outcome.status, Len(status) + 1, Len(Outcome.status))
\* The world after params.apply(world).
WorldAfter == apply(world, Outcome.commands)

\* What handle_events would do now.
Intake == IntakeAll([status |-> status, components |-> components], events)

RECURSIVE SelectSeq2(_, _)
SelectSeq2(s, keep) ==
    IF s = <<>> THEN <<>>
    ELSE IF Head(s) \in keep THEN <<Head(s)>> \o SelectSeq2(Tail(s), keep)
    ELSE SelectSeq2(Tail(s), keep)

\* The notifications of s that bear id.
WithId(s, id) == SelectSeq2(s, {n \in {s[j] : j \in 1..Len(s)} : n.id = id})
Count(s, n) == Cardinality({j \in 1..Len(s) : s[j] = n})
CountKind(s, id, kind) ==
    Cardinality({j \in 1..Len(s) : s[j].id = id /\ s[j].kind = kind})

Ready(i) == components[i].res # Pending
ReadyOk(i) == components[i].res.tag = "Ok"
ReadyErr(i) == components[i].res.tag = "Err"
\* Entries whose records the pass would merge into the world.
Merging == {i \in 1..Len(components) :
               components[i].sync /\ ReadyOk(i) /\ components[i].res.vec # <<>>}

EntitiesWith(w, pk) == {e \in 1..Len(w) : primary_key(w[e]) = pk}
KeysOf(v) == {primary_key(v[k]) : k \in 1..Len(v)}
DistinctKeys(v) == \A j, k \in 1..Len(v) : j # k => primary_key(v[j]) # primary_key(v[k])

\* Sent event n has been taken in, has completed and has been reconciled.
Reconciled(n) ==
    /\ sent[n].res # Pending
    /\ \A i \in 1..Len(components) : components[i].sub # n
    /\ \A k \in 1..Len(events) : events[k].sub # n
Quiescent == events = <<>> /\ components = <<>>

----------------------------------------------------------------------------
\* C1 (P1, no duplicate entities).  Once every sent command has been
\* reconciled, all of them synchronizing, the world holds exactly one entity
\* per primary key that any of them returned.  Stated for result vectors that
\* each have distinct keys, so that what is left is the overlap between
\* commands.
C1_P1_NoDuplicateEntities ==
    (/\ Quiescent
     /\ \A m, n \in 1..Len(sent) : m # n => sent[m].id # sent[n].id
     /\ \A n \in 1..Len(sent) :
           /\ sent[n].will_sync
           /\ sent[n].res.tag = "Ok" => DistinctKeys(sent[n].res.vec))
    => \A n \in 1..Len(sent) :
          sent[n].res.tag = "Ok" =>
             \A pk \in KeysOf(sent[n].res.vec) :
                Cardinality(EntitiesWith(world, pk)) = 1

\* C2.  A pass that reconciles one synchronizing command into a world without
\* duplicate keys leaves at most one entity per primary key among the records
\* the command returned, also when the vector repeats a key no entity has.
C2_AtMostOnePerReturnedKey ==
    \A i \in Merging :
       (/\ Merging = {i}
        /\ \A pk \in Keys : Cardinality(EntitiesWith(world, pk)) <= 1)
       => \A pk \in KeysOf(components[i].res.vec) :
             Cardinality(EntitiesWith(WorldAfter, pk)) <= 1

\* C3.  Every command that was sent once and has been reconciled shows in the
\* notification stream as one Start followed by one terminal group: one
\* Return, or one or more Spawn/Update, or one Error, whatever its result.
TerminalGroup(g) ==
    \/ Len(g) = 1 /\ g[1].kind \in {"Return", "Error"}
    \/ Len(g) >= 1 /\ \A j \in 1..Len(g) : g[j].kind \in {"Spawn", "Update"}
C3_OneStartOneTerminal ==
    \A n \in 1..Len(sent) :
       (/\ Reconciled(n)
        /\ \A m \in 1..Len(sent) : m # n => sent[m].id # sent[n].id)
       => LET mine == WithId(status, sent[n].id)
          IN /\ Len(mine) >= 1
             /\ mine[1] = Start(sent[n].id)
             /\ TerminalGroup(Tail(mine))

\* C4 (P2).  In the stream every Spawn, Update, Return or Error comes after a
\* Start with the same id, and the run of handle_events that takes a command
\* in (pushes its entry) is the one that sends its Start.
C4_StartFirst ==
    /\ \A j \in 1..Len(status) :
          status[j].kind \in Terminal =>
             \E k \in 1..(j - 1) : status[k] = Start(status[j].id)
    /\ \A i \in 1..Len(components) :
          \E k \in 1..Len(status) : status[k] = Start(components[i].id)
    /\ Len(Intake.status) = Len(status) + Len(events)
    /\ Len(Intake.components) = Len(components) + Len(events)
    /\ \A k \in 1..Len(events) :
          /\ Intake.status[Len(status) + k] = Start(events[k].id)
          /\ Intake.components[Len(components) + k].id = events[k].id
\* A Start and, after it, a terminal notification with its id, and an event
\* waiting to be taken in.
C4_Witness ==
    /\ events # <<>>
    /\ \E j \in 1..Len(status) : status[j].kind \in Terminal

\* C5 (scenario B, update in place).  Exactly one entity has key K; the pass
\* reconciles one synchronizing command, and no other, whose result is one
\* record with key K and other fields.  Then the pass leaves the number of
\* entities unchanged, that entity holds the new record, and the pass sends
\* exactly one Update(id, K) and no Spawn with the command's id.
C5_UpdateInPlace ==
    \A i \in Merging :
       LET rec == components[i].res.vec[1]
           id == components[i].id
           old == EntitiesWith(world, primary_key(rec))
       IN (/\ Merging = {i}
           /\ Len(components[i].res.vec) = 1
           /\ Cardinality(old) = 1
           /\ \A e \in old : world[e] # rec)
          => /\ Len(WorldAfter) = Len(world)
             /\ \A e \in old : WorldAfter[e] = rec
             /\ \A e \in 1..Len(world) : e \notin old => WorldAfter[e] = world[e]
             /\ Count(Emitted, Update(id, primary_key(rec))) = 1
             /\ CountKind(Emitted, id, "Update") = 1
             /\ CountKind(Emitted, id, "Spawn") = 0
\* Two commands were reconciled: the first spawned the entity, the second
\* replaced its record with one that differs in the text.
C5_Witness ==
    /\ Quiescent
    /\ Len(sent) = 2
    /\ sent[1].res = Ok(<<[id |-> 1, text |-> "a"]>>)
    /\ sent[2].res = Ok(<<[id |-> 1, text |-> "b"]>>)
    /\ world = <<[id |-> 1, text |-> "b"]>>
    /\ status = <<Start(1), Spawn(1, 1), Start(2), Update(2, 1)>>

\* C6 (scenario A, spawn).  Two synchronizing commands are sent in this order
\* into an empty world: one that returns nothing, one that returns one
\* record.  Once both are reconciled, in either order of completion, there is
\* exactly one entity, it holds the record, and a Spawn with the second
\* command's id and the record's key was sent.
C6_ScenarioSpawn ==
    (/\ Len(sent) = 2
     /\ Quiescent
     /\ sent[1].will_sync /\ sent[2].will_sync
     /\ sent[1].id # sent[2].id
     /\ sent[1].res = Ok(<<>>)
     /\ sent[2].res.tag = "Ok" /\ Len(sent[2].res.vec) = 1)
    => /\ world = sent[2].res.vec
       /\ Count(status, Spawn(sent[2].id, primary_key(sent[2].res.vec[1]))) = 1
C6_Witness ==
    /\ Len(sent) = 2
    /\ Quiescent
    /\ sent[1].will_sync /\ sent[2].will_sync
    /\ sent[1].res = Ok(<<>>)
    /\ sent[2].res = Ok(<<[id |-> 2, text |-> "a"]>>)
    /\ world = <<[id |-> 2, text |-> "a"]>>
    /\ status = <<Start(1), Start(2), Spawn(2, 2)>>

\* C7 (scenario C, non-synchronizing).  For every non-synchronizing entry the
\* pass finds complete with Ok(records) it sends one Return(id, records) with
\* the whole vector, and nothing else with that id; a pass that finds no
\* synchronizing entry complete leaves every entity as it was, also when a
\* returned record has the key of an entity.
C7_ReturnOnly ==
    /\ \A i \in 1..Len(components) :
          (~components[i].sync /\ ReadyOk(i)) =>
             LET id == components[i].id
                 same == {j \in 1..Len(components) : components[j].id = id}
             IN /\ Count(Emitted, Return(id, components[i].res.vec))
                     = Cardinality({j \in same :
                                       components[j].res = components[i].res})
                /\ CountKind(Emitted, id, "Return")
                     = Cardinality({j \in same : ReadyOk(j)})
                /\ CountKind(Emitted, id, "Spawn") = 0
                /\ CountKind(Emitted, id, "Update") = 0
    /\ (\A i \in 1..Len(components) : Ready(i) => ~components[i].sync)
          => WorldAfter = world
\* A Return was sent whose first record has the key of an entity, and that
\* entity holds another record.
C7_Witness ==
    \E j \in 1..Len(status) :
       /\ status[j].kind = "Return"
       /\ status[j].vec # <<>>
       /\ \E e \in 1..Len(world) :
             /\ primary_key(world[e]) = primary_key(status[j].vec[1])
             /\ world[e] # status[j].vec[1]
       /\ Len(world) = 1
       /\ Quiescent

\* C8 (scenario D, error).  For every entry the pass finds complete with
\* Err(e), synchronizing or not, the pass sends one Error(id, e) and nothing
\* else for it and does not retain the entry; a pass that finds only failed
\* entries complete leaves the world unchanged.
C8_ErrorOnce ==
    /\ \A i \in 1..Len(components) :
          ReadyErr(i) =>
             LET id == components[i].id
                 same == {j \in 1..Len(components) : components[j].id = id}
             IN /\ Count(Emitted, Error(id, components[i].res.err))
                     = Cardinality({j \in same :
                                       components[j].res = components[i].res})
                /\ CountKind(Emitted, id, "Error")
                     = Cardinality({j \in same : ReadyErr(j)})
                /\ \A k \in 1..Len(Outcome.components) :
                      Outcome.components[k].sub # components[i].sub
    /\ (\A i \in 1..Len(components) : Ready(i) => ReadyErr(i))
          => WorldAfter = world
\* A synchronizing command failed: its Error is in the stream, its entry is
\* gone, and the entity an earlier command spawned is as it was.
C8_Witness ==
    /\ Quiescent
    /\ Len(sent) = 2
    /\ sent[2].will_sync
    /\ sent[2].res.tag = "Err"
    /\ world = <<[id |-> 1, text |-> "a"]>>
    /\ status = <<Start(1), Spawn(1, 1), Start(2), Error(2, sent[2].res.err)>>

\* C9 (P4, partial failure isolation).  Whatever else is outstanding, the
\* entries that failed add to a pass one Error each and nothing more: the
\* entries retained, the changes to the world and every other notification
\* are those of the same pass over the outstanding set without the failed
\* entries.
Succeeding ==
    SelectSeq2(components,
               {c \in {components[i] : i \in 1..Len(components)} :
                   c.res.tag # "Err"})
NotError(s) == SelectSeq2(s, {n \in {s[j] : j \in 1..Len(s)} : n.kind # "Error"})
C9_FailureIsolated ==
    LET alone == Pass(Succeeding, world, status)
    IN /\ WorldAfter = apply(world, alone.commands)
       /\ Outcome.components = alone.components
       /\ NotError(Emitted)
            = SubSeq(alone.status, Len(status) + 1, Len(alone.status))
       /\ \A i \in 1..Len(components) :
             ReadyErr(i) =>
                CountKind(Emitted, components[i].id, "Error")
                  = Cardinality({j \in 1..Len(components) :
                                    /\ components[j].id = components[i].id
                                    /\ ReadyErr(j)})
\* Two commands are outstanding, the first failed and the second succeeded
\* with a record, and no pass has run since.
C9_Witness ==
    /\ Len(components) = 2
    /\ ReadyErr(1)
    /\ components[2].sync /\ ReadyOk(2) /\ components[2].res.vec # <<>>
    /\ components[1].id # components[2].id

\* C10 (P3).  A pass over an outstanding set in which no task is complete
\* sends nothing, retains the same entries in the same order and leaves the
\* world unchanged.
C10_PendingPassIsNoOp ==
    (\A i \in 1..Len(components) : ~Ready(i))
    => /\ Emitted = <<>>
       /\ Outcome.components = components
       /\ Outcome.commands = <<>>
       /\ WorldAfter = world
\* Two tasks outstanding, both pending, one of each kind.
C10_Witness ==
    /\ Len(components) = 2
    /\ \A i \in 1..Len(components) : ~Ready(i)
    /\ components[1].sync /\ ~components[2].sync
----------------------------------------------------------------------------
\* The command the caller constructed with this id (ids are unique, C13).
CmdWithId(id) == CHOOSE c \in 1..Len(cmds) : cmds[c].id = id
IdsIn(s) == {s[j].id : j \in 1..Len(s)}

\* C11.  The synchronize flag of a command fixes the kind of its success
\* notification: every Return in the stream bears the id of a command built
\* with will_sync = FALSE, every Spawn and Update the id of one built with
\* will_sync = TRUE.
C11_KindFollowsFlag ==
    \A j \in 1..Len(status) :
       /\ status[j].kind = "Return" => ~cmds[CmdWithId(status[j].id)].will_sync
       /\ status[j].kind \in {"Spawn", "Update"} =>
             cmds[CmdWithId(status[j].id)].will_sync
\* The stream holds a Return of one command and a Spawn of another.
C11_Witness ==
    /\ \E j \in 1..Len(status) : status[j].kind = "Return"
    /\ \E j \in 1..Len(status) : status[j].kind = "Spawn"

\* C12.  A command is sent and one tick runs: before the tick the stream is
\* empty, after it the stream holds Start(id) and nothing else (the terminal
\* notification is not sent in the tick that sent Start).
C12_OnlyStartAfterOneTick ==
    (/\ Len(sent) = 1
     /\ sent[1].tick = 0
     /\ tick.at = "idle")
    => /\ tick.n = 0 => status = <<>>
       /\ tick.n = 1 => status = <<Start(sent[1].id)>>

\* C13.  Command ids are unique and strictly increasing in construction
\* order, and the first command constructed has id 1.
C13_IdsIncrease ==
    /\ cmds # <<>> => cmds[1].id = FirstId
    /\ \A c, d \in 1..Len(cmds) : c < d => cmds[c].id < cmds[d].id
    /\ \A c \in 1..Len(cmds) : cmds[c].id < generator
C13_Witness ==
    /\ Len(cmds) = MaxCmds
    /\ cmds[1].id = 1 /\ cmds[2].id = 2

\* C14.  The outstanding set holds at most one entry per command id, also
\* when a command and a clone of it are both sent.
C14_OneEntryPerId ==
    \A i, j \in 1..Len(components) :
       i # j => components[i].id # components[j].id

\* C15.  A sent command whose Start is in the stream and that has no terminal
\* notification in the stream still has its entry in the outstanding set.
C15_NoTerminalMeansPending ==
    \A n \in 1..Len(sent) :
       (/\ \E j \in 1..Len(status) : status[j] = Start(sent[n].id)
        /\ \A j \in 1..Len(status) :
              status[j].id = sent[n].id => status[j].kind \notin Terminal)
       => \E i \in 1..Len(components) : components[i].sub = n

\* C16.  Whether a record of a synchronizing command updates or spawns is
\* decided by primary-key equality alone: the notifications the pass sends
\* for an entry are, record by record, Update when some entity has the
\* record's key (whatever its other fields) and Spawn when none has
\* (whatever fields it shares with an entity); and a pass that reconciles one
\* record replaces the first entity with its key, or appends a new entity.
ExpectedKinds(i) ==
    [k \in 1..Len(components[i].res.vec) |->
        LET rec == components[i].res.vec[k]
        IN IF EntitiesWith(world, primary_key(rec)) # {}
           THEN Update(components[i].id, primary_key(rec))
           ELSE Spawn(components[i].id, primary_key(rec))]
C16_KeyAloneDecides ==
    \A i \in Merging :
       /\ WithId(Emitted, components[i].id) = ExpectedKinds(i)
       /\ (Merging = {i} /\ Len(components[i].res.vec) = 1) =>
             LET rec == components[i].res.vec[1]
                 old == EntitiesWith(world, primary_key(rec))
             IN IF old = {}
                THEN WorldAfter = Append(world, rec)
                ELSE /\ Len(WorldAfter) = Len(world)
                     /\ \E e \in old :
                           /\ \A f \in old : e <= f
                           /\ WorldAfter = [world EXCEPT ![e] = rec]
\* A record with a new key and the text of an existing entity was spawned
\* next to it.
C16_Witness ==
    /\ world = <<[id |-> 1, text |-> "a"], [id |-> 2, text |-> "a"]>>
    /\ status = <<Start(1), Spawn(1, 1), Start(2), Spawn(2, 2)>>

\* C17.  No automatic retry.  Once Error(id, _) is in the stream, nothing with
\* that id follows it, no entry and no queued event bears that id, and the
\* command's function was invoked once (one Start, one intake).
C17_NoRetry ==
    \A j \in 1..Len(status) :
       status[j].kind = "Error" =>
          /\ \A k \in (j + 1)..Len(status) : status[k].id # status[j].id
          /\ \A i \in 1..Len(components) : components[i].id # status[j].id
          /\ \A k \in 1..Len(events) : events[k].id # status[j].id
          /\ CountKind(status, status[j].id, "Start") = 1
          /\ CountKind(status, status[j].id, "Error") = 1
\* The first command failed and was dropped, and the caller went on to
\* construct and send another.
C17_Witness ==
    /\ Len(status) >= 3
    /\ status[2] = Error(1, "RowNotFound")
    /\ status[3] = Start(2)
    /\ components # <<>>

\* C18.  Constructing a command has no effect until it is sent: a command
\* that was constructed and not sent has no queued event, no entry in the
\* outstanding set and no notification, and the sent history does not hold it.
C18_ConstructionIsPure ==
    \A c \in 1..Len(cmds) :
       (\A n \in 1..Len(sent) : sent[n].id # cmds[c].id)
       => /\ cmds[c].id \notin IdsIn(events)
          /\ cmds[c].id \notin IdsIn(components)
          /\ cmds[c].id \notin IdsIn(status)
\* A second command has been constructed and not sent while the first is
\* outstanding.
C18_Witness ==
    /\ Len(cmds) = 2
    /\ Len(sent) = 1
    /\ Len(components) = 1
    /\ status = <<Start(1)>>

\* C20.  The entries a pass retains are exactly the entries whose poll is not
\* ready, in their order: no pending entry is removed and no completed entry
\* is kept.
StillPending ==
    SelectSeq2(components,
               {c \in {components[i] : i \in 1..Len(components)} :
                   c.res = Pending})
C20_RetainsExactlyPending ==
    Outcome.components = StillPending
\* The first entry is complete, the second is pending.
C20_Witness ==
    /\ Len(components) = 2
    /\ Ready(1) /\ ~Ready(2)
\* C19.  The synchronize flag is fixed at construction.  query and call build
\* commands with will_sync = FALSE, query_sync and call_sync with
\* will_sync = TRUE; a constructed command never changes; and every queued
\* event and every entry of the outstanding set carries the flag of the
\* command it came from, for as long as it exists.
FlagCarried ==
    /\ \A k \in 1..Len(events) :
          events[k].will_sync = cmds[CmdWithId(events[k].id)].will_sync
    /\ \A i \in 1..Len(components) :
          components[i].sync = cmds[CmdWithId(components[i].id)].will_sync
FlagBuilt ==
    /\ (SqlxEvent_query \/ SqlxEvent_call) => ~cmds'[Len(cmds')].will_sync
    /\ (SqlxEvent_query_sync \/ SqlxEvent_call_sync) => cmds'[Len(cmds')].will_sync
    /\ \A c \in 1..Len(cmds) : Len(cmds') >= c /\ cmds'[c] = cmds[c]
    /\ \A i \in 1..Len(components) : \A k \in 1..Len(components') :
          components'[k].sub = components[i].sub =>
             components'[k].sync = components[i].sync
C19_FlagFixed == []FlagCarried /\ [][FlagBuilt]_vars
\* A synchronizing and a plain command are both outstanding.
C19_Witness ==
    /\ Len(components) = 2
    /\ components[1].sync /\ ~components[2].sync
    /\ cmds[1].will_sync /\ ~cmds[2].will_sync
----------------------------------------------------------------------------
\* The terminal notifications one reconciliation of result res sends.
ExpectedCount(sync, res) ==
    IF res.tag = "Ok" /\ sync THEN Len(res.vec) ELSE 1
TerminalCount(s, id) ==
    Cardinality({j \in 1..Len(s) : s[j].id = id /\ s[j].kind \in Terminal})

\* C21.  A task is completed once.  An entry whose task is ready has not been
\* reconciled before; the pass that first finds it ready consumes the result
\* and removes the entry; and once the entry is gone its result is never
\* reconciled again: the stream holds the notifications of one
\* reconciliation, whatever passes ran since.
C21_CompletedOnce ==
    /\ \A i \in 1..Len(components) :
          /\ TerminalCount(status, components[i].id) = 0
          /\ \A j \in 1..Len(components) :
                components[j].sub = components[i].sub => i = j
          /\ Ready(i) =>
                /\ \A k \in 1..Len(Outcome.components) :
                      Outcome.components[k].sub # components[i].sub
                /\ TerminalCount(Outcome.status, components[i].id)
                      = ExpectedCount(components[i].sync, components[i].res)
    /\ \A n \in 1..Len(sent) :
          Reconciled(n) =>
             TerminalCount(status, sent[n].id)
                = ExpectedCount(sent[n].will_sync, sent[n].res)
\* The first command was reconciled in one pass and a later pass reconciled
\* the second.
C21_Witness ==
    /\ Len(sent) = 2
    /\ Reconciled(1) /\ Reconciled(2)
    /\ Len(status) = 4
    /\ status[1] = Start(1) /\ status[2].id = 1
    /\ status[3] = Start(2) /\ status[4].id = 2

\* C22.  Intake sends the Start notifications of the queued commands in the
\* order they were sent and appends their entries in that order, behind the
\* entries already outstanding.
StartsOf(evs) == [k \in 1..Len(evs) |-> Start(evs[k].id)]
EntriesOf(evs) ==
    [k \in 1..Len(evs) |-> [id |-> evs[k].id, sync |-> evs[k].will_sync,
                            sub |-> evs[k].sub, res |-> Pending]]
C22_IntakeInOrder ==
    /\ Intake.status = status \o StartsOf(events)
    /\ Intake.components = components \o EntriesOf(events)
    /\ \A k \in 1..Len(events) : k < Len(events) =>
          events[k].sub < events[k + 1].sub
\* Two commands were taken in by one run of handle_events.
C22_Witness ==
    /\ status = <<Start(1), Start(2)>>
    /\ Len(components) = 2
    /\ components[1].id = 1 /\ components[2].id = 2

\* C23.  Intake handles every sent command once.  A sent command is either
\* still queued (no Start, no entry) or was taken in once: one Start, so one
\* call of its function and one task, and at most one entry, which bears its
\* id and flag.  With nothing queued, handle_events adds no entry and sends
\* no Start.
Queued(n) == \E k \in 1..Len(events) : events[k].sub = n
C23_TakenInOnce ==
    /\ \A n \in 1..Len(sent) :
          /\ Cardinality({k \in 1..Len(events) : events[k].sub = n}) <= 1
          /\ Cardinality({i \in 1..Len(components) : components[i].sub = n}) <= 1
          /\ CountKind(status, sent[n].id, "Start") = (IF Queued(n) THEN 0 ELSE 1)
          /\ Queued(n) => \A i \in 1..Len(components) : components[i].sub # n
          /\ sent[n].res = Pending /\ ~Queued(n) =>
                \E i \in 1..Len(components) : components[i].sub = n
          /\ \A i \in 1..Len(components) :
                components[i].sub = n =>
                   /\ components[i].id = sent[n].id
                   /\ components[i].sync = sent[n].will_sync
    /\ events = <<>> =>
          Intake = [status |-> status, components |-> components]
    /\ Len(Intake.components) = Len(components) + Len(events)
\* handle_events ran twice, each time with one command queued.
C23_Witness ==
    /\ Len(status) >= 3
    /\ status[1] = Start(1)
    /\ status[2].id = 1 /\ status[2].kind \in Terminal
    /\ status[3] = Start(2)
    /\ events = <<>>
    /\ Len(components) = 1
\* C24.  Tie-break.  When several entities have the key of a record of a
\* synchronizing command, the pass sends one Update for the record (no Spawn,
\* no Error) and, the record being the only one reconciled in the pass,
\* replaces the first of those entities and leaves every other entity as it
\* was.
First(S) == CHOOSE e \in S : \A f \in S : e <= f
C24_FirstMatchWins ==
    \A i \in Merging :
       /\ \A k \in 1..Len(components[i].res.vec) :
             Cardinality(EntitiesWith(world,
                            primary_key(components[i].res.vec[k]))) > 1
             => WithId(Emitted, components[i].id)[k]
                   = Update(components[i].id,
                            primary_key(components[i].res.vec[k]))
       /\ (/\ Merging = {i}
           /\ Len(components[i].res.vec) = 1
           /\ Cardinality(EntitiesWith(world,
                             primary_key(components[i].res.vec[1]))) > 1)
          => LET rec == components[i].res.vec[1]
                 e == First(EntitiesWith(world, primary_key(rec)))
             IN /\ WithId(Emitted, components[i].id)
                      = <<Update(components[i].id, primary_key(rec))>>
                /\ WorldAfter = [world EXCEPT ![e] = rec]
                /\ \A f \in 1..Len(world) : f # e => WorldAfter[f] = world[f]
\* The record (1, "b") replaced the first of the two entities with key 1; the
\* other still holds (1, "a").
C24_Witness ==
    /\ world = <<[id |-> 1, text |-> "b"], [id |-> 2, text |-> "a"],
                 [id |-> 1, text |-> "a"]>>
    /\ status = <<Start(1), Update(1, 1)>>
\* C25.  The records r1..rn of a synchronizing command are reconciled in
\* that order: the pass sends n Spawn/Update notifications with its id, the
\* k-th bearing the key of rk, and queues the creations and replacements in
\* the order of the records (entry after entry), which is the order
\* params.apply runs them in.
RECURSIVE RecordsOf(_)
RecordsOf(entries) ==
    IF entries = <<>> THEN <<>>
    ELSE (IF Head(entries).sync /\ Head(entries).res.tag = "Ok"
          THEN Head(entries).res.vec ELSE <<>>) \o RecordsOf(Tail(entries))
C25_RecordOrderKept ==
    /\ \A i \in Merging :
          LET ns == WithId(Emitted, components[i].id)
              v == components[i].res.vec
          IN /\ Len(ns) = Len(v)
             /\ \A k \in 1..Len(v) :
                   /\ ns[k].kind \in {"Spawn", "Update"}
                   /\ ns[k].pk = primary_key(v[k])
    /\ [k \in 1..Len(Outcome.commands) |-> Outcome.commands[k].component]
          = RecordsOf(components)
    /\ (\A k \in 1..Len(RecordsOf(components)) :
           EntitiesWith(world, primary_key(RecordsOf(components)[k])) = {})
       => WorldAfter = world \o RecordsOf(components)
\* One command returned (2, "a") and then (1, "b"), and the entities were
\* created in that order.
C25_Witness ==
    /\ status = <<Start(1), Spawn(1, 2), Spawn(1, 1)>>
    /\ world = <<[id |-> 2, text |-> "a"], [id |-> 1, text |-> "b"]>>

\* C26.  A synchronizing command that completes with Ok(records) gets one
\* Spawn or one Update per record and nothing else: in the pass that
\* reconciles it and in the stream ever after.
SpawnsAndUpdates(s, id) == CountKind(s, id, "Spawn") + CountKind(s, id, "Update")
C26_OnePerRecord ==
    /\ \A i \in 1..Len(components) :
          components[i].sync /\ ReadyOk(i) =>
             /\ SpawnsAndUpdates(Emitted, components[i].id)
                   = Len(components[i].res.vec)
             /\ TerminalCount(Emitted, components[i].id)
                   = Len(components[i].res.vec)
    /\ \A n \in 1..Len(sent) :
          Reconciled(n) /\ sent[n].will_sync /\ sent[n].res.tag = "Ok" =>
             /\ SpawnsAndUpdates(status, sent[n].id) = Len(sent[n].res.vec)
             /\ TerminalCount(status, sent[n].id) = Len(sent[n].res.vec)
\* A command that returned two records with the same key has been reconciled.
C26_Witness ==
    \E n \in 1..Len(sent) :
       /\ Reconciled(n)
       /\ sent[n].will_sync
       /\ sent[n].res = Ok(<<[id |-> 1, text |-> "a"], [id |-> 1, text |-> "b"]>>)

\* C27.  Every Return, Spawn, Update and Error bears the id of the command
\* whose task produced it: a command that was sent, whose Start precedes the
\* notification, and whose result is the one the notification reports.
Produced(n, note) ==
    CASE note.kind = "Return" ->
            ~sent[n].will_sync /\ sent[n].res = Ok(note.vec)
      [] note.kind = "Error" -> sent[n].res = Err(note.err)
      [] OTHER ->
            /\ sent[n].will_sync
            /\ sent[n].res.tag = "Ok"
            /\ note.pk \in KeysOf(sent[n].res.vec)
C27_IdOfOrigin ==
    \A j \in 1..Len(status) :
       status[j].kind \in Terminal =>
          /\ \E n \in 1..Len(sent) :
                sent[n].id = status[j].id /\ Produced(n, status[j])
          /\ \E k \in 1..(j - 1) : status[k] = Start(status[j].id)
\* The second command finished and was reconciled before the first.
C27_Witness ==
    /\ Len(status) = 4
    /\ status[1] = Start(1) /\ status[2] = Start(2)
    /\ status[3] = Return(2, <<[id |-> 2, text |-> "a"]>>)
    /\ status[4] = Error(1, "RowNotFound")

\* C28.  Only the reconciliation pass changes the entities.  A step that
\* constructs a command, takes events in or completes a task leaves the world
\* as it is, and every step that changes the world is a step of the pass.
WorldOnlyByPass ==
    /\ (\/ SqlxEvent_query \/ SqlxEvent_query_sync
        \/ SqlxEvent_call \/ SqlxEvent_call_sync
        \/ \E c \in 1..Len(cmds) : send_event(c)
        \/ run_handle_events
        \/ \E i \in 1..Len(components) : \E r \in Results : task_completes(i, r))
       => world' = world
    /\ world' # world => run_handle_tasks
C28_WorldOnlyByPass == [][WorldOnlyByPass]_vars
\* A synchronizing command has completed with records and no pass has run
\* since: the world is still empty.
C28_Witness ==
    /\ Merging # {}
    /\ world = <<>>
    /\ \A j \in 1..Len(status) : status[j].kind = "Start"

\* C29.  A pass visits every entry once and does not wait: every pending
\* entry is kept once, still pending, and every ready entry is reconciled
\* once, so the pass sends exactly the notifications of the ready entries.
RECURSIVE SumExpected(_)
SumExpected(entries) ==
    IF entries = <<>> THEN 0
    ELSE (IF Head(entries).res = Pending THEN 0
          ELSE ExpectedCount(Head(entries).sync, Head(entries).res))
         + SumExpected(Tail(entries))
C29_OnePollEach ==
    /\ Len(Emitted) = SumExpected(components)
    /\ Len(Outcome.components)
          = Cardinality({i \in 1..Len(components) : ~Ready(i)})
    /\ \A k \in 1..Len(Outcome.components) :
          Outcome.components[k].res = Pending
    /\ \A i \in 1..Len(components) :
          Ready(i) => TerminalCount(Emitted, components[i].id)
                         = ExpectedCount(components[i].sync, components[i].res)
\* A pending entry stands before a completed one.
C29_Witness ==
    /\ Len(components) = 2
    /\ ~Ready(1) /\ Ready(2)
    /\ ExpectedCount(components[2].sync, components[2].res) > 0

\* C30.  The results found complete in one pass are reconciled in the order
\* of the outstanding set: the notifications of an earlier entry all precede
\* those of a later entry, whichever task finished first.
EntryWithId(id) == CHOOSE i \in 1..Len(components) : components[i].id = id
C30_InsertionOrder ==
    \A a, b \in 1..Len(Emitted) :
       a < b => EntryWithId(Emitted[a].id) <= EntryWithId(Emitted[b].id)
\* Two entries are complete, each with something to report.
C30_Witness ==
    /\ Len(components) = 2
    /\ Ready(1) /\ Ready(2)
    /\ components[1].id # components[2].id
    /\ ExpectedCount(components[1].sync, components[1].res) > 0
    /\ ExpectedCount(components[2].sync, components[2].res) > 0
----------------------------------------------------------------------------
\* C31.  The id counter is a u32 that wraps.  The command constructed when
\* the counter stands at u32::MAX (written -1) gets that id, the next one
\* gets 0 and the one after gets 1: each id is its predecessor plus one
\* modulo 2^32, and the counter is the last id plus one modulo 2^32.  An id
\* handed out after the wrap can be that of an entry that is still
\* outstanding.
Succ32(id) == IF id = -1 THEN 0 ELSE id + 1
C31_CounterWraps ==
    /\ \A c \in 1..Len(cmds) :
          /\ c < Len(cmds) => cmds[c + 1].id = Succ32(cmds[c].id)
          /\ c = Len(cmds) => generator = Succ32(cmds[c].id)
    /\ cmds # <<>> => cmds[1].id \in {-1, 0}
    /\ (Len(cmds) >= 2 /\ cmds[1].id = -1) => cmds[2].id = 0
\* After the wrap a new command got id 1 while the entry of the first
\* command, id 1, is still outstanding.
C31_Witness ==
    /\ Len(cmds) = 2
    /\ cmds[1].id = 0 /\ cmds[2].id = 1
    /\ \E i \in 1..Len(components) :
          components[i].id = 1 /\ components[i].sub = 1
\* C32.  The creations and replacements a pass issues are deferred to its
\* end: every lookup sees the entities as they were when the pass began.  A
\* record whose key no entity had at the start of the pass yields a Spawn and
\* a new entity, also when an earlier record of the pass (of the same command
\* or of an earlier one) has the same key; and the pass hands back the world
\* unchanged until its Commands are applied.
NewKeyRecords ==
    {k \in 1..Len(RecordsOf(components)) :
        EntitiesWith(world, primary_key(RecordsOf(components)[k])) = {}}
C32_LookupsSeePassStart ==
    /\ \A i \in Merging : \A k \in 1..Len(components[i].res.vec) :
          EntitiesWith(world, primary_key(components[i].res.vec[k])) = {}
          => WithId(Emitted, components[i].id)[k]
                = Spawn(components[i].id, primary_key(components[i].res.vec[k]))
    /\ Len(WorldAfter) = Len(world) + Cardinality(NewKeyRecords)
    /\ \A k \in NewKeyRecords : Outcome.commands[k].op = "spawn"
\* One command returned two records with key 1 into an empty world: the
\* second was not matched with the entity the first created.
C32_Witness ==
    /\ status = <<Start(1), Spawn(1, 1), Spawn(1, 1)>>
    /\ world = <<[id |-> 1, text |-> "a"], [id |-> 1, text |-> "b"]>>

\* C33.  A synchronizing command that resolves to Ok(vec![]) leaves the
\* outstanding set in the pass that finds it, and that pass sends no
\* notification with its id and queues nothing for it: alone in the pass, it
\* leaves the stream and the world as they were.
EmptySync == {i \in 1..Len(components) :
                 components[i].sync /\ components[i].res = Ok(<<>>)}
WithKey(pk) ==
    {k \in 1..Len(RecordsOf(components)) :
        primary_key(RecordsOf(components)[k]) = pk}
Last(S) == CHOOSE k \in S : \A l \in S : l <= k
C34_LastRecordWins ==
    \A pk \in Keys :
       (EntitiesWith(world, pk) # {} /\ Cardinality(WithKey(pk)) >= 2) =>
          /\ WorldAfter[First(EntitiesWith(world, pk))]
                = RecordsOf(components)[Last(WithKey(pk))]
          /\ Cardinality({j \in 1..Len(Emitted) :
                             Emitted[j].kind = "Update" /\ Emitted[j].pk = pk})
                = Cardinality(WithKey(pk))
          /\ \A j \in 1..Len(Emitted) :
                Emitted[j].kind = "Spawn" => Emitted[j].pk # pk
          /\ Cardinality(EntitiesWith(WorldAfter, pk))
                = Cardinality(EntitiesWith(world, pk))
\* One command returned (1, "a") and then (1, "b"); the first entity with key
\* 1 now holds (1, "b").
C34_Witness ==
    /\ status = <<Start(1), Update(1, 1), Update(1, 1)>>
    /\ sent[1].res = Ok(<<[id |-> 1, text |-> "a"], [id |-> 1, text |-> "b"]>>)
    /\ world[1] = [id |-> 1, text |-> "b"]
    /\ Len(world) = 3

\* C35.  Reconciliation never removes an entity: after a pass every entity
\* that existed before it still exists, with the same key, whatever the
\* commands returned (also nothing at all for the key of an entity).
C35_EntitiesOnlyGrow ==
    /\ Len(WorldAfter) >= Len(world)
    /\ \A e \in 1..Len(world) :
          primary_key(WorldAfter[e]) = primary_key(world[e])
\* An entity with key 1 exists; a later synchronizing command returned no
\* record with key 1 and has been reconciled; the entity is still there.
C35_Witness ==
    /\ Len(sent) = 2
    /\ Reconciled(1) /\ Reconciled(2)
    /\ sent[2].will_sync
    /\ sent[2].res.tag = "Ok" /\ 1 \notin KeysOf(sent[2].res.vec)
    /\ status[2] = Spawn(1, 1)
    /\ world[1].id = 1

\* C36.  A pass adds as many entities as it sends Spawn notifications;
\* Update, Return and Error add none.
SpawnsIn(s) == Cardinality({j \in 1..Len(s) : s[j].kind = "Spawn"})
C36_GrowthIsSpawns ==
    /\ Len(WorldAfter) = Len(world) + SpawnsIn(Emitted)
    /\ Len(world) = SpawnsIn(status)
\* A pass is about to send a Spawn for one command and a Return or an Error
\* for another.
C36_Witness ==
    /\ \E j \in 1..Len(Emitted) : Emitted[j].kind = "Spawn"
    /\ \E j \in 1..Len(Emitted) : Emitted[j].kind \in {"Return", "Error"}
    /\ Len(WorldAfter) > Len(world)

\* C37.  Reconciling one record changes at most one entity.  For every record
\* and the world at hand, the one Command the record queues either replaces
\* the component of the matched entity and nothing else, or appends one
\* entity and leaves all others as they were; a pass that reconciles a single
\* record does exactly that.
OneRecord(rec) ==
    apply(world,
          sync_component([components |-> <<>>, status |-> <<>>,
                          commands |-> <<>>], 0, rec, world).commands)
Changed(w) == {e \in 1..Len(world) : w[e] # world[e]}
C37_OneEntityPerRecord ==
    /\ \A rec \in Foo :
          /\ Len(OneRecord(rec)) \in {Len(world), Len(world) + 1}
          /\ Cardinality(Changed(OneRecord(rec))) <= 1
          /\ Len(OneRecord(rec)) = Len(world) + 1 => Changed(OneRecord(rec)) = {}
          /\ Changed(OneRecord(rec)) \subseteq {existing_entity(world, rec)}
    /\ \A i \in Merging :
          (Merging = {i} /\ Len(components[i].res.vec) = 1)
          => WorldAfter = OneRecord(components[i].res.vec[1])
\* The pass is about to reconcile the single record (1, "b") against a world
\* with two entities of key 1.
C37_Witness ==
    /\ Merging = {1}
    /\ components[1].res.vec = <<[id |-> 1, text |-> "b"]>>
    /\ Cardinality(EntitiesWith(world, 1)) = 2
\* C38.  Liveness.  While ticks keep occurring, the entry of a sent command
\* whose future has resolved is eventually removed from the outstanding set;
\* and when every future resolves and the caller stops sending, the
\* outstanding set eventually becomes empty and stays empty.
HasEntry(n) == \E i \in 1..Len(components) : components[i].sub = n
ResolvedEntry(n) == n <= Len(sent) /\ HasEntry(n) /\ sent[n].res # Pending
C38_EventuallyReaped ==
    /\ \A n \in 1..MaxCmds : ResolvedEntry(n) ~> ~HasEntry(n)
    /\ <>[](components = <<>> /\ events = <<>>)
\* Both commands were sent, resolved (one failed, one returned a record) and
\* have been reaped: the outstanding set is empty.
C38_Witness ==
    /\ Len(sent) = 2
    /\ sent[1].res.tag = "Err"
    /\ sent[2].res.tag = "Ok" /\ sent[2].res.vec # <<>>
    /\ Reconciled(1) /\ Reconciled(2)
    /\ components = <<>>
====
